---- MODULE Spec2Model ----
(***************************************************************************)
(* State-machine model of username_generator.py: the availability          *)
(* resolution subsystem (check_availability and its probing strategies,    *)
(* check_username_across_platforms, find_available_username) and the       *)
(* candidate generator.                                                    *)
(*                                                                         *)
(* Python values are represented as follows.  The dictionary field         *)
(* 'available' holds True, False, 'unknown' or 'error'; TLC cannot compare *)
(* a boolean with a string, so True and False are the strings PyTrue and   *)
(* PyFalse.  None is the string PyNone.  A result dictionary is a TLA+     *)
(* record whose domain is the dictionary's key set.  Strings are TLA+      *)
(* strings; a parsed JSON value is a record tagged with its JSON type.     *)
(* One step of the machine is one network request (or the code between     *)
(* two requests); time.sleep pacing delays and print calls are omitted.    *)
(*                                                                         *)
(* The file as committed does not compile: the body of _youtube_bypass is  *)
(* mis-indented near line 900, and lines 1433-1449 of check_availability   *)
(* stand at the indentation of the enclosing `try:` of line 1418.  The     *)
(* model follows the evident repair: lines 1433-1449 belong to the else    *)
(* branch of the dispatch (the generic path), and _youtube_bypass, which   *)
(* no call reaches, is left out.                                           *)
(***************************************************************************)
EXTENDS Integers, Sequences, FiniteSets, TLC

VARIABLES
    op,               \* public method in progress: "idle", "check", "across", "find"
    pc,               \* position inside check_availability
    username,         \* argument of the current check_availability call
    website,          \* argument of the current check_availability call
    total,            \* retries left in the Retry object mounted on the generic session
    trail,            \* session.get calls made by the current check_availability call, in order
    result,           \* value returned by the last check_availability call
    raised,           \* exception that escaped the last check_availability call
    failure,          \* exception session.get raised inside the current check_availability call
    results,          \* check_username_across_platforms: the dictionary being built
    queue,            \* check_username_across_platforms: platforms still to visit
    style,            \* find_available_username: argument
    max_attempts,     \* find_available_username: argument
    attempt,          \* find_available_username: candidates generated so far
    available_count,  \* find_available_username: local counter
    found,            \* find_available_username: returned value
    taken,            \* find_available_username: candidates so far that were found taken
    session_cookies,  \* self.session_cookies (its key set)
    referer_chain,    \* self.referer_chain
    target_length,    \* generate_username: the length argument
    draws,            \* generate_username: the raw draws its random.choice calls consume
    generated,        \* generate_username: returned value
    headers,          \* the User-Agent and Referer drawn for a check_availability call made
                      \* directly by the caller
    wire,             \* what the transport answered to the requests of that call, in order
    prior             \* an earlier direct call whose answers the transport serves again

vars == <<op, pc, username, website, total, trail, result, raised, failure, results, queue,
          style, max_attempts, attempt, available_count, found, taken,
          session_cookies, referer_chain, target_length, draws, generated, headers, wire, prior>>

\* The locals of generate_username.
generator_vars == <<target_length, draws, generated>>

----------------------------------------------------------------------------
(* Python values *)

PyTrue == "True"
PyFalse == "False"
PyNone == "None"
NoResult == [none |-> TRUE]
NoException == [type |-> "none"]
NoHeaders == [none |-> TRUE]
NoPrior == [none |-> TRUE]

\* 'status_code': 'multiple_attempts', the one non-numeric status_code.
MULTIPLE_ATTEMPTS == -1

----------------------------------------------------------------------------
(* String helpers: str.lower, the substring test `t in s`, str.format *)

\* str.lower on one character: the ASCII capitals map to their small letters.
lower_map ==
    [A |-> "a", B |-> "b", C |-> "c", D |-> "d", E |-> "e", F |-> "f", G |-> "g",
     H |-> "h", I |-> "i", J |-> "j", K |-> "k", L |-> "l", M |-> "m", N |-> "n",
     O |-> "o", P |-> "p", Q |-> "q", R |-> "r", S |-> "s", T |-> "t", U |-> "u",
     V |-> "v", W |-> "w", X |-> "x", Y |-> "y", Z |-> "z"]

LowerChar(c) == IF c \in DOMAIN lower_map THEN lower_map[c] ELSE c

RECURSIVE lower(_)
lower(s) == IF Len(s) = 0 THEN "" ELSE LowerChar(SubSeq(s, 1, 1)) \o lower(SubSeq(s, 2, Len(s)))

\* Python `t in s` for two strings.
Contains(s, t) ==
    \E i \in 1..(Len(s) - Len(t) + 1) : SubSeq(s, i, i + Len(t) - 1) = t

Placeholder == "{username}"

\* template.format(username=u) for a template with one {username} field.
Format(template, u) ==
    LET i == CHOOSE j \in 1..Len(template) :
                 SubSeq(template, j, j + Len(Placeholder) - 1) = Placeholder
    IN SubSeq(template, 1, i - 1) \o u \o SubSeq(template, i + Len(Placeholder), Len(template))

----------------------------------------------------------------------------
(* The platform table *)

websites ==
    [github    |-> [name |-> "GitHub",    url |-> "https://github.com/{username}",            check_available |-> TRUE],
     twitter   |-> [name |-> "Twitter/X", url |-> "https://twitter.com/{username}",           check_available |-> TRUE],
     instagram |-> [name |-> "Instagram", url |-> "https://instagram.com/{username}",         check_available |-> TRUE],
     tiktok    |-> [name |-> "TikTok",    url |-> "https://tiktok.com/@{username}",           check_available |-> FALSE],
     discord   |-> [name |-> "Discord",   url |-> "https://discord.com/users/{username}",     check_available |-> FALSE],
     reddit    |-> [name |-> "Reddit",    url |-> "https://reddit.com/u/{username}",          check_available |-> FALSE],
     youtube   |-> [name |-> "YouTube",   url |-> "https://youtube.com/@{username}",          check_available |-> FALSE],
     twitch    |-> [name |-> "Twitch",    url |-> "https://twitch.tv/{username}",             check_available |-> FALSE],
     spotify   |-> [name |-> "Spotify",   url |-> "https://open.spotify.com/user/{username}", check_available |-> FALSE],
     steam     |-> [name |-> "Steam",     url |-> "https://steamcommunity.com/id/{username}", check_available |-> TRUE],
     linkedin  |-> [name |-> "LinkedIn",  url |-> "https://linkedin.com/in/{username}",       check_available |-> FALSE],
     snapchat  |-> [name |-> "Snapchat",  url |-> "https://snapchat.com/add/{username}",      check_available |-> FALSE]]

\* Iteration order of self.websites.items(): dictionary insertion order.
website_order ==
    <<"github", "twitter", "instagram", "tiktok", "discord", "reddit",
      "youtube", "twitch", "spotify", "steam", "linkedin", "snapchat">>

----------------------------------------------------------------------------
(* Parsed JSON values and the Python operations the code applies to them *)

JInvalid == [t |-> "invalid"]     \* response.json() raises
JNull == [t |-> "null"]
JNum(n) == [t |-> "num", v |-> n]
JStr(s) == [t |-> "str", v |-> s]
JList(l) == [t |-> "list", v |-> l]
JObj(m) == [t |-> "obj", v |-> m]

\* Python `key in v`: PyTrue, PyFalse, or "TypeError" when v is not a container.
PyIn(key, v) ==
    CASE v.t = "obj"  -> IF key \in DOMAIN v.v THEN PyTrue ELSE PyFalse
      [] v.t = "list" -> IF \E i \in 1..Len(v.v) : v.v[i] = JStr(key) THEN PyTrue ELSE PyFalse
      [] v.t = "str"  -> IF Contains(v.v, key) THEN PyTrue ELSE PyFalse
      [] OTHER        -> "TypeError"

\* Python truth value of a parsed JSON value.
Truthy(v) ==
    CASE v.t = "null" -> FALSE
      [] v.t = "num"  -> v.v # 0
      [] v.t = "str"  -> Len(v.v) > 0
      [] v.t = "list" -> Len(v.v) > 0
      [] v.t = "obj"  -> DOMAIN v.v # {}

\* The response bodies the transport may deliver.
Bodies ==
    { "",
      "<html>Followers: 10 | Bio</html>",
      "<html>Login to continue</html>",
      "<rss><channel>feed</channel></rss>",
      "{\"data\":{\"user\":{\"id\":\"1\"}}}",
      "{\"data\":{\"user\":null}}",
      "{\"data\":{\"user\":{}}}",
      "{\"data\":{}}",
      "{\"data\":null}",
      "{}",
      "null",
      "{\"author_name\":\"Bob\"}",
      "{\"author_name\":\"\"}" }

\* response.json(): the value json.loads gives for each body of Bodies.
json(text) ==
    CASE text = "{\"data\":{\"user\":{\"id\":\"1\"}}}" ->
             JObj([data |-> JObj([user |-> JObj([id |-> JStr("1")])])])
      [] text = "{\"data\":{\"user\":null}}" -> JObj([data |-> JObj([user |-> JNull])])
      [] text = "{\"data\":{\"user\":{}}}"   -> JObj([data |-> JObj([user |-> JObj(<<>>)])])
      [] text = "{\"data\":{}}"              -> JObj([data |-> JObj(<<>>)])
      [] text = "{\"data\":null}"            -> JObj([data |-> JNull])
      [] text = "{}"                         -> JObj(<<>>)
      [] text = "null"                       -> JNull
      [] text = "{\"author_name\":\"Bob\"}"  -> JObj([author_name |-> JStr("Bob")])
      [] text = "{\"author_name\":\"\"}"     -> JObj([author_name |-> JStr("")])
      [] OTHER                               -> JInvalid

----------------------------------------------------------------------------
(* The HTTP transport *)

\* Status codes the transport may answer with.
Statuses == {200, 404, 413, 429, 501, 503}

\* The final URL of a response: the requested one, or another one.
Urls(requested) == {requested, "https://example.com/login"}

\* What one request on the wire can produce: a response, or a failure.
Responses(requested) ==
    [kind : {"response"}, status_code : Statuses, text : Bodies,
     url : Urls(requested), retry_after : BOOLEAN]

WireFailures == {[kind |-> "fail", error |-> "connection"],
                 [kind |-> "fail", error |-> "read_timeout"]}

Outcomes(requested) == Responses(requested) \cup WireFailures

\* The parts of an outcome that the code, or the Retry mounted on its session,
\* reads to reach a verdict: the status code, the body of a 200 answer to a
\* bypass, the Retry-After header of a 413 answer, or that the request failed.
Seen(o) ==
    IF o.kind = "fail"
    THEN [kind |-> "fail"]
    ELSE [kind |-> "response", status_code |-> o.status_code,
          text |-> IF o.status_code = 200 /\ pc # "generic" THEN o.text ELSE "",
          retry_after |-> o.status_code = 413 /\ o.retry_after]

\* What the next request of the current call can produce: anything, or, while the
\* transport serves the answers of an earlier call again, the answer it gave then.
Transport(requested) ==
    IF prior = NoPrior \/ Len(wire) >= Len(prior.wire)
    THEN Outcomes(requested)
    ELSE {o \in Outcomes(requested) : Seen(o) = prior.wire[Len(wire) + 1]}

\* The log of the transport after it answered with o.
Logged(o) == IF op = "check" THEN Append(wire, Seen(o)) ELSE wire

\* Variant of RequestExceptionTypes: what `except requests.Timeout` would catch.
RequestExceptionTypes_timeouts == {"ReadTimeout"}

\* The exception classes of requests that derive from requests.RequestException.
RequestExceptionTypes == {"ConnectionError", "ReadTimeout", "RetryError"}

\* session.get on a session without a mounted Retry: the exception requests
\* raises for a wire failure.
RaisedBy(fail) ==
    IF fail.error = "read_timeout"
    THEN [type |-> "ReadTimeout", msg |-> "Read timed out."]
    ELSE [type |-> "ConnectionError", msg |-> "Max retries exceeded (Caused by NewConnectionError)"]

\* Retry(total=3, backoff_factor=1, status_forcelist=[429, 500, 502, 503, 504])
RetryTotal == 3
status_forcelist == {429, 500, 502, 503, 504}
\* urllib3 honours a Retry-After header on these status codes.
RETRY_AFTER_STATUS_CODES == {413, 429, 503}

\* Retry.is_retry for a GET: is the response to be retried, `left` retries remaining.
is_retry(response, left) ==
    \/ response.status_code \in status_forcelist
    \/ /\ left # 0
       /\ response.retry_after
       /\ response.status_code \in RETRY_AFTER_STATUS_CODES

\* The exception session.get raises when the mounted Retry is exhausted by `outcome`.
RetryExhausted(outcome) ==
    IF outcome.kind = "response"
    THEN [type |-> "RetryError",
          msg |-> "Max retries exceeded (Caused by ResponseError('too many "
                      \o ToString(outcome.status_code) \o " error responses'))"]
    ELSE IF outcome.error = "read_timeout"
    THEN [type |-> "ConnectionError", msg |-> "Max retries exceeded (Caused by ReadTimeoutError)"]
    ELSE [type |-> "ConnectionError", msg |-> "Max retries exceeded (Caused by NewConnectionError)"]

----------------------------------------------------------------------------
(* Response classification of the three probing paths *)

\* Variant of _instagram_response: the value under 'user' has to be truthy.
_instagram_response_by_value(response) ==
    IF response.status_code = 200
    THEN LET data == json(response.text)
             inconclusive == [available |-> "unknown", status_code |-> 200, method |-> "api"]
             exists == [available |-> PyFalse, status_code |-> 200, method |-> "api"]
             absent == [available |-> PyTrue, status_code |-> 200, method |-> "api"]
         IN  IF data.t = "invalid" THEN inconclusive
             ELSE IF PyIn("data", data) = "TypeError" THEN inconclusive
             ELSE IF PyIn("data", data) = PyFalse THEN absent
             ELSE IF data.t # "obj" THEN inconclusive
             ELSE IF PyIn("user", data.v.data) = "TypeError" THEN inconclusive
             ELSE IF PyIn("user", data.v.data) = PyTrue /\ data.v.data.t = "obj"
                        /\ Truthy(data.v.data.v.user)
             THEN exists
             ELSE absent
    ELSE IF response.status_code = 404
    THEN [available |-> PyTrue, status_code |-> 404, method |-> "api"]
    ELSE [available |-> "unknown", status_code |-> response.status_code, method |-> "api"]

\* _instagram_bypass: the branches on the response.
_instagram_response(response) ==
    IF response.status_code = 200
    THEN LET data == json(response.text)
             inconclusive == [available |-> "unknown", status_code |-> 200, method |-> "api"]
             exists == [available |-> PyFalse, status_code |-> 200, method |-> "api"]
             absent == [available |-> PyTrue, status_code |-> 200, method |-> "api"]
         IN  IF data.t = "invalid" THEN inconclusive
             ELSE IF PyIn("data", data) = "TypeError" THEN inconclusive
             ELSE IF PyIn("data", data) = PyFalse THEN absent
             ELSE IF data.t # "obj" THEN inconclusive
             ELSE IF PyIn("user", data.v.data) = "TypeError" THEN inconclusive
             ELSE IF PyIn("user", data.v.data) = PyTrue THEN exists
             ELSE absent
    ELSE IF response.status_code = 404
    THEN [available |-> PyTrue, status_code |-> 404, method |-> "api"]
    ELSE [available |-> "unknown", status_code |-> response.status_code, method |-> "api"]

twitter_indicators ==
    {"followers", "following", "tweets", "profile", "bio", "verified", "joined"}

\* Variant of _twitter_search: a 200 body without an indicator is inconclusive.
_twitter_search_hands_over(response) ==
    IF response.status_code = 200
    THEN IF \E indicator \in twitter_indicators : Contains(lower(response.text), indicator)
         THEN [available |-> PyFalse, status_code |-> 200, method |-> "search"]
         ELSE NoResult
    ELSE IF response.status_code = 404
    THEN [available |-> PyTrue, status_code |-> 404, method |-> "search"]
    ELSE NoResult

\* _twitter_bypass, METHOD 1: the returned dictionary, or NoResult when the code falls through.
_twitter_search(response) ==
    IF response.status_code = 200
    THEN LET content == lower(response.text)
         IN  IF \E indicator \in twitter_indicators : Contains(content, indicator)
             THEN [available |-> PyFalse, status_code |-> 200, method |-> "search"]
             ELSE [available |-> PyTrue, status_code |-> 200, method |-> "search"]
    ELSE IF response.status_code = 404
    THEN [available |-> PyTrue, status_code |-> 404, method |-> "search"]
    ELSE NoResult

\* _twitter_bypass, METHOD 2.
_twitter_embed(response) ==
    IF response.status_code = 200
    THEN LET data == json(response.text)
             unknown == [available |-> "unknown", status_code |-> 200, method |-> "embed"]
         IN  IF data.t = "invalid" THEN unknown
             ELSE IF PyIn("author_name", data) = "TypeError" THEN unknown
             ELSE IF PyIn("author_name", data) = PyFalse
             THEN [available |-> PyTrue, status_code |-> 200, method |-> "embed"]
             ELSE IF data.t # "obj" THEN unknown
             ELSE IF Truthy(data.v.author_name)
             THEN [available |-> PyFalse, status_code |-> 200, method |-> "embed"]
             ELSE [available |-> PyTrue, status_code |-> 200, method |-> "embed"]
    ELSE IF response.status_code = 404
    THEN [available |-> PyTrue, status_code |-> 404, method |-> "embed"]
    ELSE NoResult

\* _twitter_bypass, METHOD 3.
_twitter_rss(response) ==
    IF response.status_code = 200
    THEN LET content == lower(response.text)
         IN  IF Contains(content, "rss") /\ Contains(content, "channel")
             THEN [available |-> PyFalse, status_code |-> 200, method |-> "rss"]
             ELSE [available |-> PyTrue, status_code |-> 200, method |-> "rss"]
    ELSE IF response.status_code = 404
    THEN [available |-> PyTrue, status_code |-> 404, method |-> "rss"]
    ELSE NoResult

\* The three sub-probes of _twitter_bypass, in the order of the code.
twitter_methods == <<"search", "embed", "rss">>

twitter_url(method, u) ==
    CASE method = "search" -> "https://twitter.com/search?q=from%3A" \o u \o "&src=typed_query&f=user"
      [] method = "embed"  -> "https://publish.twitter.com/oembed?url=https://twitter.com/" \o u
      [] method = "rss"    -> "https://twitter.com/" \o u \o "/rss"

instagram_url(u) == "https://www.instagram.com/api/v1/users/web_profile_info/?username=" \o u

\* Variant of _generic_response: a 200 answer is classified by its body.
_generic_response_by_body(w, u, response) ==
    IF response.status_code = 404 THEN [available |-> PyTrue, status_code |-> 404]
    ELSE IF response.status_code = 200
    THEN IF Contains(lower(response.text), "login")
         THEN [available |-> PyTrue, status_code |-> 200]
         ELSE [available |-> PyFalse, status_code |-> 200]
    ELSE [available |-> "unknown", status_code |-> response.status_code]

\* Variant of _generic_response: a 413 answer gets a verdict of its own.
_generic_response_rate_limited(w, u, response) ==
    IF response.status_code = 404 THEN [available |-> PyTrue, status_code |-> 404]
    ELSE IF response.status_code = 200 THEN [available |-> PyFalse, status_code |-> 200]
    ELSE IF response.status_code = 413
    THEN [available |-> "rate_limited", status_code |-> response.status_code]
    ELSE [available |-> "unknown", status_code |-> response.status_code]

\* check_availability, "Platform-specific logic": the branches on the response
\* of the generic request.
_generic_response(w, u, response) ==
    IF w = "instagram"
    THEN IF response.status_code = 404 THEN [available |-> PyTrue, status_code |-> 404]
         ELSE IF response.status_code = 200
         THEN LET content == lower(response.text)
              IN  IF \E indicator \in {"followers", "following", "posts", "profile", "bio"} :
                         Contains(content, indicator)
                  THEN [available |-> PyFalse, status_code |-> 200]
                  ELSE IF Contains(content, "login") \/ Contains(content, "sign up")
                  THEN [available |-> PyTrue, status_code |-> 200]
                  ELSE [available |-> "unknown", status_code |-> 200]
         ELSE [available |-> "unknown", status_code |-> response.status_code]
    ELSE IF w = "twitter"
    THEN IF response.status_code = 404 THEN [available |-> PyTrue, status_code |-> 404]
         ELSE IF response.status_code = 200
         THEN IF Contains(response.url, "twitter.com") /\ Contains(response.url, u)
              THEN [available |-> PyFalse, status_code |-> 200]
              ELSE [available |-> PyTrue, status_code |-> 200]
         ELSE [available |-> "unknown", status_code |-> response.status_code]
    ELSE IF w = "tiktok"
    THEN IF response.status_code = 404 THEN [available |-> PyTrue, status_code |-> 404]
         ELSE IF response.status_code = 200
         THEN IF Contains(response.url, "tiktok.com") /\ Contains(response.url, u)
              THEN [available |-> PyFalse, status_code |-> 200]
              ELSE [available |-> PyTrue, status_code |-> 200]
         ELSE [available |-> "unknown", status_code |-> response.status_code]
    ELSE IF response.status_code = 404 THEN [available |-> PyTrue, status_code |-> 404]
         ELSE IF response.status_code = 200 THEN [available |-> PyFalse, status_code |-> 200]
         ELSE [available |-> "unknown", status_code |-> response.status_code]

\* One entry of the evidence trail: a session.get call of the generic path, the
\* number of requests it put on the wire, the status it ended with (0: no
\* response) and what the code made of it.
Attempt(method, url, status, verdict, requests) ==
    [method |-> method, url |-> url, status_code |-> status, verdict |-> verdict,
     requests |-> requests]

\* One entry of the evidence trail: a session.get call of a bypass (one request on
\* the wire), with the body when the bypass read it, which it does on status 200
\* ("inconclusive": the code fell through to the next sub-probe).
AttemptOf(method, url, outcome, r) ==
    [method |-> method, url |-> url,
     status_code |-> IF outcome.kind = "response" THEN outcome.status_code ELSE 0,
     verdict |-> IF outcome.kind = "fail" THEN "error"
                 ELSE IF r = NoResult THEN "inconclusive" ELSE r.available,
     requests |-> 1,
     text |-> IF outcome.kind = "response" /\ outcome.status_code = 200
              THEN outcome.text ELSE ""]

----------------------------------------------------------------------------
(* Inputs *)

\* Usernames passed to check_availability and check_username_across_platforms.
Usernames == {"neo", "zen7"}

\* Platform keys passed to check_availability: the table's keys and one unknown key.
WebsiteKeys == DOMAIN websites \cup {"myspace"}

----------------------------------------------------------------------------
(* check_availability *)

\* random.choice(seq) on a sequence, x being the raw draw of the random source.
choice(seq, x) == seq[(x % Len(seq)) + 1]

referers == <<"https://www.google.com/", "https://www.bing.com/", "https://duckduckgo.com/">>

\* The User-Agent strings of the generic path.
fake_identities ==
    <<"Mozilla/5.0 (Windows NT 10.0; Win64; x64) AppleWebKit/537.36 (KHTML, like Gecko) Chrome/120.0.0.0 Safari/537.36",
      "Mozilla/5.0 (Macintosh; Intel Mac OS X 10_15_7) AppleWebKit/537.36 (KHTML, like Gecko) Chrome/120.0.0.0 Safari/537.36",
      "Mozilla/5.0 (X11; Linux x86_64) AppleWebKit/537.36 (KHTML, like Gecko) Chrome/120.0.0.0 Safari/537.36",
      "Mozilla/5.0 (Windows NT 10.0; Win64; x64; rv:109.0) Gecko/20100101 Firefox/121.0",
      "Mozilla/5.0 (Macintosh; Intel Mac OS X 10.15; rv:109.0) Gecko/20100101 Firefox/121.0",
      "Mozilla/5.0 (Windows NT 10.0; Win64; x64) AppleWebKit/537.36 (KHTML, like Gecko) Edge/120.0.0.0 Safari/537.36",
      "Mozilla/5.0 (Macintosh; Intel Mac OS X 10_15_7) AppleWebKit/605.1.15 (KHTML, like Gecko) Version/17.1 Safari/605.1.15",
      "Mozilla/5.0 (iPhone; CPU iPhone OS 17_1 like Mac OS X) AppleWebKit/605.1.15 (KHTML, like Gecko) Version/17.1 Mobile/15E148 Safari/604.1",
      "Mozilla/5.0 (Android 14; Mobile; rv:109.0) Gecko/121.0 Firefox/121.0",
      "Mozilla/5.0 (Linux; Android 14; SM-G998B) AppleWebKit/537.36 (KHTML, like Gecko) Chrome/120.0.0.0 Mobile Safari/537.36">>

\* Largest raw draw explored for the two random.choice calls that pick the headers.
MaxHeaderRand == 2

\* The raw draws of those two calls: the User-Agent first, the Referer second.
HeaderDraws == {<<x, x + 1>> : x \in 0..(MaxHeaderRand - 1)}

\* Variant of retry_budget: the Retry object outlives the call and keeps its count.
retry_budget_kept(left) == left

\* Retry(total=3, ...) is built anew by every call of the generic path.
retry_budget(left) == RetryTotal

\* Variant of gate: the check_available flag is not consulted.
gate_unguarded(w) ==
    IF w \notin DOMAIN websites THEN "unsupported" ELSE "probe"

\* The two guards at the top of check_availability.
gate(w) ==
    IF w \notin DOMAIN websites THEN "unsupported"
    ELSE IF ~websites[w].check_available THEN "manual"
    ELSE "probe"

\* Entry of check_availability(u, w): the guards, the dispatch to a bypass and,
\* on the generic path, the session set-up up to the first request.
Call(u, w, logged) ==
    /\ username' = u
    /\ website' = w
    /\ trail' = <<>>
    /\ wire' = <<>>
    /\ raised' = NoException
    /\ failure' = NoException
    /\ total' = retry_budget(total)
    /\ IF gate(w) = "unsupported"
       THEN /\ result' = [available |-> PyFalse, error |-> "Website not supported"]
            /\ pc' = "return"
            /\ headers' = NoHeaders
            /\ UNCHANGED <<session_cookies, referer_chain>>
       ELSE IF gate(w) = "manual"
       THEN /\ result' = [available |-> "unknown", note |-> "Availability checking not supported"]
            /\ pc' = "return"
            /\ headers' = NoHeaders
            /\ UNCHANGED <<session_cookies, referer_chain>>
       ELSE IF w \in {"instagram", "tiktok", "youtube", "snapchat"}
       THEN /\ result' = NoResult
            /\ pc' = w
            /\ headers' = NoHeaders
            /\ UNCHANGED <<session_cookies, referer_chain>>
       ELSE IF w = "twitter"
       THEN /\ result' = NoResult
            /\ pc' = twitter_methods[1]
            /\ headers' = NoHeaders
            /\ UNCHANGED <<session_cookies, referer_chain>>
       ELSE \* generic path: the headers, _advanced_bypass_techniques(session, website),
            \* Retry mounted
            /\ result' = NoResult
            /\ pc' = "generic"
            /\ session_cookies' = session_cookies \cup {w}
            /\ referer_chain' = IF referer_chain = <<>> THEN referers ELSE referer_chain
            /\ \E rnd \in HeaderDraws :
                  headers' = IF logged
                             THEN [User_Agent |-> choice(fake_identities, rnd[1]),
                                   Referer |-> choice(referer_chain', rnd[2])]
                             ELSE NoHeaders

\* _instagram_bypass: one GET, classified; any exception becomes an 'error' result.
InstagramGet ==
    /\ pc = "instagram"
    /\ \E o \in Transport(instagram_url(username)) :
          LET r == IF o.kind = "response"
                   THEN _instagram_response(o)
                   ELSE [available |-> "error", error |-> RaisedBy(o).msg, method |-> "api"]
          IN  /\ result' = r
              /\ failure' = IF o.kind = "fail" THEN RaisedBy(o) ELSE NoException
              /\ trail' = Append(trail, AttemptOf("api", instagram_url(username), o, r))
              /\ wire' = Logged(o)
    /\ pc' = "return"
    /\ UNCHANGED <<op, username, website, total, raised, results, queue, style,
                   max_attempts, attempt, available_count, found, taken,
                   session_cookies, referer_chain, headers, prior, generator_vars>>

_twitter_response(method, response) ==
    CASE method = "search" -> _twitter_search(response)
      [] method = "embed"  -> _twitter_embed(response)
      [] method = "rss"    -> _twitter_rss(response)

\* The sub-probe that follows `method` in _twitter_bypass, "return" after the last.
method_after(method) ==
    LET i == CHOOSE j \in 1..Len(twitter_methods) : twitter_methods[j] = method
    IN  IF i < Len(twitter_methods) THEN twitter_methods[i + 1] ELSE "return"

\* _twitter_bypass: one sub-probe (search, embed or rss): its GET and the
\* branches that follow it.
TwitterProbe ==
    /\ pc \in {"search", "embed", "rss"}
    /\ \E o \in Transport(twitter_url(pc, username)) :
          LET r == IF o.kind = "response" THEN _twitter_response(pc, o) ELSE NoResult
          IN  /\ trail' = Append(trail, AttemptOf(pc, twitter_url(pc, username), o, r))
              /\ wire' = Logged(o)
              /\ failure' = IF o.kind = "fail" THEN RaisedBy(o) ELSE NoException
              /\ IF o.kind = "fail"
                 THEN /\ result' = [available |-> "error", error |-> RaisedBy(o).msg,
                                    method |-> "multi"]
                      /\ pc' = "return"
                 ELSE IF r # NoResult
                 THEN /\ result' = r
                      /\ pc' = "return"
                 ELSE IF method_after(pc) = "return"
                 THEN /\ result' = [available |-> "unknown",
                                    status_code |-> MULTIPLE_ATTEMPTS, method |-> "multi"]
                      /\ pc' = "return"
                 ELSE /\ result' = result
                      /\ pc' = method_after(pc)
    /\ UNCHANGED <<op, username, website, total, raised, results, queue, style,
                   max_attempts, attempt, available_count, found, taken,
                   session_cookies, referer_chain, headers, prior, generator_vars>>

\* check_availability, generic path: session.get through the mounted Retry, one
\* request on the wire per step, then the classification of the final response;
\* `except requests.RequestException` turns a raised exception into an 'error' result.
GenericGet ==
    /\ pc = "generic"
    /\ LET url == Format(websites[website].url, username)
           sent == RetryTotal - total + 1
       IN \E o \in Transport(url) :
          /\ wire' = Logged(o)
          /\ IF o.kind = "fail" \/ is_retry(o, total)
            THEN IF total = 0
                 THEN LET e == RetryExhausted(o)
                      IN  /\ trail' = Append(trail, Attempt("generic", url,
                                         IF o.kind = "response" THEN o.status_code ELSE 0,
                                         "error", sent))
                          /\ pc' = "return"
                          /\ total' = total
                          /\ failure' = e
                          /\ IF e.type \in RequestExceptionTypes
                             THEN /\ result' = [available |-> "error", error |-> e.msg]
                                  /\ raised' = NoException
                             ELSE /\ result' = NoResult
                                  /\ raised' = e
                 ELSE /\ total' = total - 1
                      /\ UNCHANGED <<pc, trail, result, raised, failure>>
            ELSE LET r == _generic_response(website, username, o)
                 IN  /\ trail' = Append(trail, Attempt("generic", url, o.status_code,
                                                       r.available, sent))
                     /\ result' = r
                     /\ pc' = "return"
                     /\ UNCHANGED <<total, raised, failure>>
    /\ UNCHANGED <<op, username, website, results, queue, style,
                   max_attempts, attempt, available_count, found, taken,
                   session_cookies, referer_chain, headers, prior, generator_vars>>

\* A caller invokes check_availability(u, w).
CheckAvailability ==
    /\ op = "idle"
    /\ op' = "check"
    /\ \E u \in Usernames, w \in WebsiteKeys : Call(u, w, TRUE)
    /\ UNCHANGED <<results, queue, style, max_attempts, attempt, available_count, found, taken,
                   prior, generator_vars>>

----------------------------------------------------------------------------
(* check_username_across_platforms *)

\* Variant of Store: the dictionary is replaced by the new entry.
Store_replacing(d, k, v) == [x \in {k} |-> v]

\* results[site_key] = result
Store(d, k, v) == [x \in DOMAIN d \cup {k} |-> IF x = k THEN v ELSE d[x]]

\* Entry: results = {} and the first iteration of the loop up to its request.
CheckAcrossPlatforms ==
    /\ op = "idle"
    /\ op' = "across"
    /\ results' = <<>>
    /\ queue' = Tail(website_order)
    /\ \E u \in Usernames : Call(u, Head(website_order), FALSE)
    /\ UNCHANGED <<style, max_attempts, attempt, available_count, found, taken,
                   prior, generator_vars>>

\* The loop body after check_availability returned: results[site_key] = result,
\* then the next iteration, or `return results` after the last platform.
AcrossStore ==
    /\ op = "across"
    /\ pc = "return"
    /\ IF raised # NoException
       THEN /\ pc' = "done"
            /\ UNCHANGED <<results, queue, username, website, total, trail, result, raised,
                           failure, session_cookies, referer_chain, headers, wire>>
       ELSE /\ results' = Store(results, website, result)
            /\ IF queue = <<>>
               THEN /\ pc' = "done"
                    /\ UNCHANGED <<queue, username, website, total, trail, result, raised,
                                   failure, session_cookies, referer_chain, headers, wire>>
               ELSE /\ queue' = Tail(queue)
                    /\ Call(username, Head(queue), FALSE)
    /\ UNCHANGED <<op, style, max_attempts, attempt, available_count, found, taken,
                   prior, generator_vars>>

----------------------------------------------------------------------------
(* generate_username *)

adjectives ==
    <<"cool", "epic", "zen", "max", "neo", "arc", "vex", "lux", "nex", "zen",
      "ace", "pro", "top", "big", "new", "old", "red", "blue", "dark", "lite",
      "fast", "slow", "high", "low", "hot", "ice", "fire", "wind", "star", "moon",
      "sun", "sky", "sea", "land", "rock", "tree", "bird", "fish", "wolf", "lion",
      "bear", "eagle", "hawk", "fox", "cat", "dog", "bee", "ant", "fly", "bug">>

nouns ==
    <<"dev", "pro", "ace", "max", "neo", "arc", "vex", "lux", "nex", "zen",
      "code", "hack", "tech", "data", "byte", "bit", "web", "app", "game", "art",
      "music", "photo", "video", "blog", "site", "page", "link", "file", "text", "word",
      "name", "user", "team", "crew", "band", "club", "zone", "base", "home", "work",
      "play", "fun", "joy", "win", "goal", "dream", "hope", "love", "life", "time",
      "space", "world", "earth", "city", "town", "road", "path", "way", "door", "key",
      "book", "page", "line", "point", "spot", "mark", "sign", "flag", "star", "moon">>

\* Variant of letter_subs: 'a' is replaced by two characters.
letter_subs_two_for_a ==
    [o |-> "0", i |-> "1", l |-> "1", e |-> "3", a |-> "44", s |-> "5",
     g |-> "9", t |-> "7", b |-> "8"]

\* The dictionary literal names 'g' twice; the later value '9' is the one kept.
letter_subs ==
    [o |-> "0", i |-> "1", l |-> "1", e |-> "3", a |-> "4", s |-> "5",
     g |-> "9", t |-> "7", b |-> "8"]

\* Variant of numbers: two digits each.
numbers_of_two_digits == <<"11", "22", "33", "44", "55", "66", "77", "88", "99", "00">>

numbers == <<"1", "2", "3", "4", "5", "6", "7", "8", "9", "0">>

\* Variant of symbols: a dot for the hyphen.
symbols_with_dot == <<"", "_", ".">>

symbols == <<"", "_", "-">>

short_words ==
    <<"dev", "pro", "ace", "max", "neo", "zen", "arc", "nex", "vex", "lux",
      "code", "hack", "tech", "web", "app", "art", "fun", "joy", "win", "top">>

\* Variant of vowels: y counted among them.
vowels_with_y == "aeiouy"

vowels == "aeiou"
consonants == "bcdfghjklmnpqrstvwxyz"

\* The default of the `length` parameter.
DefaultLength == 8

\* Variant of clean_words: two of the three entries are True.
clean_words_two_of_three == <<TRUE, TRUE, FALSE>>

\* 'adjective_noun': the list the branch draw is taken from; True is the branch
\* that appends no number.
clean_words == <<TRUE, FALSE, FALSE>>

\* random.choice(s) on a string.
choice_char(s, x) == SubSeq(s, (x % Len(s)) + 1, (x % Len(s)) + 1)

\* The 'letter_sub' loop from character i of the word on, k being the next unused draw.
RECURSIVE substitute(_, _, _, _)
substitute(word, i, rnd, k) ==
    IF i > Len(word) THEN ""
    ELSE LET char == SubSeq(word, i, i)
         IN  IF char \in DOMAIN letter_subs
             THEN (IF choice(<<TRUE, FALSE, FALSE>>, rnd[k]) THEN letter_subs[char] ELSE char)
                      \o substitute(word, i + 1, rnd, k + 1)
             ELSE char \o substitute(word, i + 1, rnd, k)

\* The 'random' loop from index i (0-based) on.
RECURSIVE pronounceable(_, _, _)
pronounceable(length, rnd, i) ==
    IF i >= length THEN ""
    ELSE (IF i % 2 = 0 THEN choice_char(consonants, rnd[i + 1])
                       ELSE choice_char(vowels, rnd[i + 1]))
             \o pronounceable(length, rnd, i + 1)

\* generate_username(style, length), rnd being the sequence of raw draws that the
\* calls of random.choice consume in order.
generate_username(st, length, rnd) ==
    IF st = "adjective_noun"
    THEN LET adjective == choice(adjectives, rnd[2])
             noun == choice(nouns, rnd[3])
             symbol == choice(symbols, rnd[4])
         IN  IF choice(clean_words, rnd[1])
             THEN lower(adjective \o symbol \o noun)
             ELSE lower(adjective \o symbol \o noun \o choice(numbers, rnd[5]))
    ELSE IF st = "noun_number"
    THEN LET noun == choice(nouns, rnd[1])
         IN  IF Len(noun) < 4 THEN lower(noun \o choice(numbers, rnd[2])) ELSE lower(noun)
    ELSE IF st = "minimal"
    THEN LET word == choice(short_words, rnd[1])
         IN  IF Len(word) <= 3 /\ choice(<<TRUE, FALSE>>, rnd[2])
             THEN word \o choice(numbers, rnd[3])
             ELSE word
    ELSE IF st = "word_mash"
    THEN LET word1 == choice(SubSeq(nouns, 1, 20), rnd[1])
             word2 == choice(SubSeq(nouns, 21, 40), rnd[2])
         IN  IF choice(<<TRUE, FALSE>>, rnd[3])
             THEN lower(word1 \o word2)
             ELSE lower(word1 \o choice(symbols, rnd[4]) \o word2)
    ELSE IF st = "letter_sub"
    THEN lower(substitute(choice(nouns, rnd[1]), 1, rnd, 2))
    ELSE pronounceable(length, rnd, 0)

\* Bounds of the random sources explored: the draws of a source are
\* start, start + stride, start + 2 * stride, ...
MaxRand == 3
MaxStride == 2
MaxDraws == 8

RandomSources ==
    { [k \in 1..MaxDraws |-> start + stride * (k - 1)] :
          start \in 0..(MaxRand - 1), stride \in 0..(MaxStride - 1) }

\* The style names the docstring of generate_username lists.
style_names == {"random", "adjective_noun", "noun_number", "minimal", "word_mash",
                "letter_sub"}

\* Style arguments: the six styles and a name that is none of them.
Styles == {"random", "adjective_noun", "noun_number", "minimal", "word_mash",
           "letter_sub", "fancy"}

\* Bounds of the direct calls of generate_username: the largest length argument,
\* and the random sources, whose draws are start, start + stride, ...
MaxLength == 6
MaxSeed == 70
MaxStep == 4

GeneratorSources ==
    { [k \in 1..MaxDraws |-> start + stride * (k - 1)] :
          start \in 0..(MaxSeed - 1), stride \in 0..(MaxStep - 1) }

\* A caller invokes generate_username(style, length); every style name that is
\* not one of the five named branches takes the final else branch.
GenerateUsername ==
    /\ op = "idle"
    /\ op' = "generate"
    /\ pc' = "return"
    /\ style' \in Styles
    /\ target_length' \in 0..MaxLength
    /\ draws' \in GeneratorSources
    /\ generated' = generate_username(style', target_length', draws')
    /\ UNCHANGED <<username, website, total, trail, result, raised, failure, results, queue,
                   max_attempts, attempt, available_count, found, taken,
                   session_cookies, referer_chain, headers, wire, prior>>

----------------------------------------------------------------------------
(* find_available_username *)

key_platforms == <<"github">>

\* Largest max_attempts argument explored.
MaxAttempts == 3

\* Negative max_attempts arguments explored: -1 down to -MaxNegativeAttempts.
MaxNegativeAttempts == 1

\* Variant of in_range: the range ends after its first element.
in_range_first_only(n, limit) == n < 1 /\ n < limit

\* Variant of in_range: one iteration too many.
in_range_inclusive(n, limit) == n <= limit

\* `for attempt in range(max_attempts)`: is there another iteration after n of them.
in_range(n, limit) == n < limit

\* Variant of is_available: 'unknown' counts as well.
is_available_or_unknown(r) == r.available \in {PyTrue, "unknown"}

\* Variant of is_available: everything but False counts.
is_available_unless_taken(r) == r.available # PyFalse

\* Variant of qualifies: the count can never be reached.
qualifies_above(count) == count > Len(key_platforms)

\* The tests of the platform loop on a result, and the test after the loop.
is_available(r) == r.available = PyTrue
is_taken(r) == r.available = PyFalse
qualifies(count) == count = Len(key_platforms)

\* Entry of find_available_username(style, max_attempts).
FindAvailableUsername ==
    /\ op = "idle"
    /\ op' = "find"
    /\ pc' = "loop"
    /\ style' \in Styles
    /\ max_attempts' \in (0 - MaxNegativeAttempts)..MaxAttempts
    /\ attempt' = 0
    /\ available_count' = 0
    /\ found' = PyNone
    /\ taken' = 0
    /\ UNCHANGED <<username, website, total, trail, result, raised, failure, results, queue,
                   session_cookies, referer_chain, headers, wire, prior, generator_vars>>

\* Top of `for attempt in range(max_attempts)`: another candidate is generated and
\* the platform loop entered, or the range is exhausted and None is returned.
FindAttempt ==
    /\ op = "find"
    /\ pc = "loop"
    /\ IF in_range(attempt, max_attempts)
       THEN /\ attempt' = attempt + 1
            /\ available_count' = 0
            /\ queue' = Tail(key_platforms)
            /\ \E rnd \in RandomSources :
                  Call(generate_username(style, DefaultLength, rnd), Head(key_platforms), FALSE)
            /\ UNCHANGED found
       ELSE /\ found' = PyNone
            /\ pc' = "done"
            /\ UNCHANGED <<attempt, available_count, queue, username, website, total,
                           trail, result, raised, failure, session_cookies, referer_chain,
                           headers, wire>>
    /\ UNCHANGED <<op, style, max_attempts, results, taken, prior, generator_vars>>

\* The platform loop after check_availability returned: count or break, the next
\* platform, and after the loop `return username` when every platform counted.
FindCheck ==
    /\ op = "find"
    /\ pc = "return"
    /\ IF raised # NoException
       THEN /\ pc' = "done"
            /\ UNCHANGED <<available_count, queue, found, taken, username, website, total,
                           trail, result, raised, failure, session_cookies, referer_chain,
                           headers, wire>>
       ELSE LET count == IF is_available(result) THEN available_count + 1
                         ELSE available_count
                leave == (~is_available(result) /\ is_taken(result)) \/ queue = <<>>
            IN  /\ available_count' = count
                /\ taken' = IF ~is_available(result) /\ is_taken(result)
                             THEN taken + 1 ELSE taken
                /\ IF ~leave
                   THEN /\ queue' = Tail(queue)
                        /\ Call(username, Head(queue), FALSE)
                        /\ UNCHANGED found
                   ELSE /\ IF qualifies(count)
                           THEN found' = username /\ pc' = "done"
                           ELSE found' = found /\ pc' = "loop"
                        /\ UNCHANGED <<queue, username, website, total, trail, result,
                                       raised, failure, session_cookies, referer_chain,
                                       headers, wire>>
    /\ UNCHANGED <<op, style, max_attempts, attempt, results, prior, generator_vars>>

----------------------------------------------------------------------------
(* The caller *)

\* The public method returns (or its exception reaches the caller); the locals
\* of the call are dropped, the fields of the generator object stay.
Finish ==
    /\ \/ op \in {"check", "generate"} /\ pc = "return"
       \/ op \in {"across", "find"} /\ pc = "done"
    /\ op' = "idle"
    /\ pc' = "none"
    /\ username' = ""
    /\ website' = ""
    /\ total' = RetryTotal
    /\ trail' = <<>>
    /\ result' = NoResult
    /\ raised' = NoException
    /\ failure' = NoException
    /\ results' = <<>>
    /\ queue' = <<>>
    /\ style' = "random"
    /\ max_attempts' = 0
    /\ attempt' = 0
    /\ available_count' = 0
    /\ found' = PyNone
    /\ taken' = 0
    /\ target_length' = DefaultLength
    /\ draws' = <<>>
    /\ generated' = PyNone
    /\ headers' = NoHeaders
    /\ wire' = <<>>
    /\ prior' = NoPrior
    /\ UNCHANGED <<session_cookies, referer_chain>>

Init ==
    /\ op = "idle"
    /\ pc = "none"
    /\ username = ""
    /\ website = ""
    /\ total = RetryTotal
    /\ trail = <<>>
    /\ result = NoResult
    /\ raised = NoException
    /\ failure = NoException
    /\ results = <<>>
    /\ queue = <<>>
    /\ style = "random"
    /\ max_attempts = 0
    /\ attempt = 0
    /\ available_count = 0
    /\ found = PyNone
    /\ taken = 0
    /\ session_cookies = {}
    /\ referer_chain = <<>>
    /\ target_length = DefaultLength
    /\ draws = <<>>
    /\ generated = PyNone
    /\ headers = NoHeaders
    /\ wire = <<>>
    /\ prior = NoPrior

Next ==
    \/ GenerateUsername
    \/ CheckAvailability
    \/ InstagramGet
    \/ TwitterProbe
    \/ GenericGet
    \/ CheckAcrossPlatforms
    \/ AcrossStore
    \/ FindAvailableUsername
    \/ FindAttempt
    \/ FindCheck
    \/ Finish

Spec == Init /\ [][Next]_vars

\* The search loop alone, with the fairness of a sequential program whose every
\* request is answered or fails within its timeout.
NextFind ==
    \/ FindAvailableUsername
    \/ FindAttempt
    \/ FindCheck
    \/ GenericGet
    \/ Finish

FindSpec == Init /\ [][NextFind]_vars /\ WF_vars(NextFind)

\* The generator alone.
NextGenerate ==
    \/ GenerateUsername
    \/ Finish

GenerateSpec == Init /\ [][NextGenerate]_vars

\* A direct call of check_availability has returned; the caller repeats it with
\* the same arguments on a transport that serves the same answers in the same order.
Recheck ==
    /\ op = "check"
    /\ pc = "return"
    /\ prior = NoPrior
    /\ prior' = [username |-> username, website |-> website, result |-> result,
                 wire |-> wire, headers |-> headers]
    /\ Call(username, website, TRUE)
    /\ UNCHANGED <<op, results, queue, style, max_attempts, attempt, available_count,
                   found, taken, generator_vars>>

\* Direct calls of check_availability, each one possibly repeated.
NextReplay ==
    \/ CheckAvailability
    \/ InstagramGet
    \/ TwitterProbe
    \/ GenericGet
    \/ Recheck
    \/ Finish

ReplaySpec == Init /\ [][NextReplay]_vars

----------------------------------------------------------------------------
(* Properties *)

\* C1: for a platform whose check_available flag is False, check_availability
\* returns 'unknown' at once: no request has been issued and no probing
\* position is ever entered.
ManualOnlyUnknown ==
    (website \in DOMAIN websites /\ ~websites[website].check_available)
        => /\ pc \in {"return", "done"}
           /\ trail = <<>>
           /\ result.available = "unknown"

ManualOnlyReturned ==
    /\ op = "check"
    /\ pc = "return"
    /\ website = "discord"
    /\ trail = <<>>
    /\ result.available = "unknown"

\* C2: on the generic path (github, steam) the verdict follows from the status
\* code of the final response alone: 404 gives True, 200 gives False, anything
\* else (no response included) gives 'unknown' or 'error'.
GenericVerdictByStatus ==
    (pc = "return" /\ website \in {"github", "steam"} /\ raised = NoException)
        => /\ Len(trail) = 1
           /\ trail[1].status_code = 404 => result.available = PyTrue
           /\ trail[1].status_code = 200 => result.available = PyFalse
           /\ trail[1].status_code \notin {200, 404} => result.available \in {"unknown", "error"}

GenericTakenReturned ==
    /\ pc = "return"
    /\ website = "steam"
    /\ Len(trail) = 1
    /\ trail[1].status_code = 200
    /\ trail[1].requests > 1
    /\ result.available = PyFalse

\* C3: _twitter_bypass requests search, embed, rss in that order and stops at the
\* first sub-probe whose result is not 'unknown': a sub-probe is requested only
\* when every earlier one was inconclusive, the call does not return before the
\* last sub-probe unless the one it stops at gave a verdict other than 'unknown',
\* the returned verdict is that verdict, and search inconclusive then embed
\* False gives False after exactly two requests.
TwitterStopsAtFirstNonUnknown ==
    (website = "twitter" /\ pc \in {"search", "embed", "rss", "return"})
        => LET n == Len(trail)
               order == <<"search", "embed", "rss">>
           IN  /\ n <= 3
               /\ \A i \in 1..n : trail[i].method = order[i] /\ trail[i].requests = 1
               /\ \A i \in 1..n : i < n => trail[i].verdict = "inconclusive"
               /\ pc # "return" => (n < 3 /\ pc = order[n + 1])
               /\ pc = "return" =>
                     /\ n >= 1
                     /\ n < 3 => trail[n].verdict \notin {"inconclusive", "unknown"}
                     /\ trail[n].verdict # "inconclusive" => result.available = trail[n].verdict
                     /\ (n >= 2 /\ trail[2].verdict = PyFalse)
                            => (n = 2 /\ result.available = PyFalse)

\* C4: whenever _twitter_bypass returns 'unknown', all three sub-probes were
\* requested and fell through, and the result is tagged with method "multi".
TwitterUnknownOnlyAfterAll ==
    (website = "twitter" /\ pc = "return" /\ result.available = "unknown")
        => /\ Len(trail) = 3
           /\ \A i \in 1..Len(trail) : trail[i].verdict = "inconclusive"
           /\ result.method = "multi"

\* C5: _instagram_bypass issues one GET and classifies it: 200 with a parsed body
\* holding data.user gives False (taken), 200 with a parsed body without it gives
\* True, 200 with an unparsable body gives 'unknown', 404 gives True, anything
\* else gives 'unknown' or 'error'.
InstagramClassification ==
    (website = "instagram" /\ pc = "return")
        => LET a == trail[1]
               j == json(a.text)
               has_user == /\ j.t = "obj"
                           /\ "data" \in DOMAIN j.v
                           /\ j.v.data.t = "obj"
                           /\ "user" \in DOMAIN j.v.data.v
           IN  /\ Len(trail) = 1
               /\ a.requests = 1
               /\ (a.status_code = 200 /\ j.t # "invalid" /\ has_user)
                      => result.available = PyFalse
               /\ (a.status_code = 200 /\ j.t # "invalid" /\ ~has_user)
                      => result.available = PyTrue
               /\ (a.status_code = 200 /\ j.t = "invalid") => result.available = "unknown"
               /\ a.status_code = 404 => result.available = PyTrue
               /\ a.status_code \notin {200, 404} => result.available \in {"unknown", "error"}

\* C6: no exception escapes check_availability, check_username_across_platforms
\* or find_available_username for a transport failure: when session.get raised,
\* the call returns a result with 'available' = 'error' that carries the message.
TransportFailureBecomesError ==
    /\ raised = NoException
    /\ (pc = "return" /\ failure # NoException)
           => /\ result.available = "error"
              /\ "error" \in DOMAIN result
              /\ result.error = failure.msg

RetryErrorReturnedAcross ==
    /\ op = "across"
    /\ pc = "return"
    /\ website = "steam"
    /\ failure.type = "RetryError"
    /\ result.available = "error"

\* C7: check_username_across_platforms returns one entry per platform of the
\* table, twelve in all; each iteration stores the value check_availability
\* returned under its platform's key ('error' when the transport failed) and
\* leaves the entries of the other platforms as they were.
AcrossOneEntryPerPlatform ==
    [][/\ (op = "across" /\ pc = "return")
           => /\ DOMAIN results' = DOMAIN results \cup {website}
              /\ website \notin DOMAIN results
              /\ results'[website] = result
              /\ failure # NoException => results'[website].available = "error"
              /\ \A k \in DOMAIN results : results'[k] = results[k]
       /\ (op' = "across" /\ pc' = "done")
           => /\ raised' = NoException
              /\ DOMAIN results' = DOMAIN websites
              /\ Cardinality(DOMAIN results') = 12]_vars

AcrossReturnedWithOneError ==
    /\ op = "across"
    /\ pc = "done"
    /\ results["github"].available = "error"
    /\ results["twitter"].available = PyFalse
    /\ results["instagram"].available = PyTrue
    /\ results["steam"].available = PyTrue
    /\ results["snapchat"].available = "unknown"

\* C8: find_available_username never generates more than max_attempts
\* candidates (none when max_attempts is negative), it always reaches its
\* return, and when every candidate generated was found taken it returns None
\* after exactly max_attempts candidates (none when max_attempts is negative).
FindTerminatesWithinMaxAttempts ==
    /\ [](op = "find" => attempt <= (IF max_attempts > 0 THEN max_attempts ELSE 0))
    /\ []((op = "find" /\ pc = "done" /\ raised = NoException /\ taken = attempt)
              => /\ found = PyNone
                 /\ attempt = (IF max_attempts > 0 THEN max_attempts ELSE 0))
    /\ (op = "find") ~> (op = "find" /\ pc = "done")

AllTakenNotFound ==
    /\ op = "find"
    /\ pc = "done"
    /\ max_attempts = 2
    /\ attempt = 2
    /\ taken = 2
    /\ found = PyNone

\* C9: a candidate is returned only if the check of that candidate on every
\* platform of key_platforms returned True in this call.
FoundOnlyIfAllAvailable ==
    (op = "find" /\ found # PyNone)
        => /\ pc = "done"
           /\ found = username
           /\ available_count = Len(key_platforms)
           /\ website = "github"
           /\ result.available = PyTrue
           /\ Len(trail) = 1
           /\ trail[1].url = Format(websites["github"].url, found)
           /\ trail[1].status_code = 404

FoundAfterRejection ==
    /\ op = "find"
    /\ pc = "done"
    /\ found # PyNone
    /\ attempt = 2
    /\ taken = 1
    /\ result.available = PyTrue

\* C10: the first candidate that counts on every platform is returned: from that
\* point the call generates no candidate and issues no request, and the value
\* returned is that candidate; None is returned only after max_attempts
\* candidates (none when max_attempts is negative), the last of which did not
\* qualify.
FindReturnsFirstQualifying ==
    [][/\ (op = "find" /\ pc = "return" /\ raised = NoException /\ queue = <<>>
            /\ result.available = PyTrue
            /\ available_count + 1 = Len(key_platforms))
           => /\ pc' = "done"
              /\ found' = username
              /\ username' = username
              /\ attempt' = attempt
              /\ trail' = trail
       /\ (op = "find" /\ pc = "done") => op' = "idle"
       /\ (op' = "find" /\ pc' = "done" /\ raised' = NoException /\ found' = PyNone)
           => /\ attempt' = (IF max_attempts' > 0 THEN max_attempts' ELSE 0)
              /\ attempt' > 0 => result'.available # PyTrue]_vars

FoundAtFirstAttempt ==
    /\ op = "find"
    /\ pc = "done"
    /\ max_attempts = 3
    /\ attempt = 1
    /\ found = username
    /\ found # PyNone

\* C11: for a platform key that is not in the table, check_availability raises
\* ConfigError to its caller and returns no value.
UnknownKeyRaisesConfigError ==
    (op = "check" /\ pc = "return" /\ website \notin DOMAIN websites)
        => /\ raised.type = "ConfigError"
           /\ result = NoResult

\* C12: for a style name that is not one of the six defined styles,
\* generate_username raises and returns no candidate.
BadStyleRaises ==
    (op = "generate" /\ pc = "return" /\ style \notin style_names)
        => /\ raised # NoException
           /\ generated = PyNone

\* C13: a direct check_availability call repeated with the same username and
\* platform, on a transport serving the same answers in the same order, returns
\* the same 'available' value after the same number of requests, whatever
\* headers are drawn and whatever calls the generator object has served before.
SameTransportSameVerdict ==
    (op = "check" /\ pc = "return" /\ prior # NoPrior)
        => /\ username = prior.username
           /\ website = prior.website
           /\ result.available = prior.result.available
           /\ Len(wire) = Len(prior.wire)

RepeatedWithOtherHeaders ==
    /\ op = "check"
    /\ pc = "return"
    /\ prior # NoPrior
    /\ website = "github"
    /\ headers.User_Agent # prior.headers.User_Agent
    /\ headers.Referer # prior.headers.Referer
    /\ Len(wire) = 3
    /\ result.available = PyTrue

\* C14: for each of the six styles and every random source, every character of
\* the string generate_username returns is a small letter, a digit, '_' or '-'.
GeneratedCharacters ==
    (op = "generate" /\ pc = "return" /\ style \in style_names)
        => \A i \in 1..Len(generated) :
               Contains("abcdefghijklmnopqrstuvwxyz0123456789_-", SubSeq(generated, i, i))

GeneratedWithSymbolAndDigit ==
    /\ op = "generate"
    /\ pc = "return"
    /\ style = "adjective_noun"
    /\ Contains(generated, "-")
    /\ Contains("0123456789", SubSeq(generated, Len(generated), Len(generated)))

\* C15: for style 'random' and every length n >= 0, generate_username returns
\* exactly n characters, a consonant at every even index and a vowel at every
\* odd index (indices from 0).
RandomAlternatesConsonantVowel ==
    (op = "generate" /\ pc = "return" /\ style = "random")
        => /\ Len(generated) = target_length
           /\ \A i \in 0..(Len(generated) - 1) :
                  LET c == SubSeq(generated, i + 1, i + 1)
                  IN  IF i % 2 = 0
                      THEN Contains("bcdfghjklmnpqrstvwxyz", c)
                      ELSE Contains("aeiou", c)

RandomOfFiveGenerated ==
    /\ op = "generate"
    /\ pc = "return"
    /\ style = "random"
    /\ target_length = 5
    /\ Len(generated) = 5
    /\ SubSeq(generated, 2, 2) = "u"

\* C16: for style 'noun_number' the result is the chosen noun followed by
\* exactly one digit when the noun has fewer than 4 characters, and the noun
\* unchanged when it has 4 or more.
NounNumberDigitOnlyIfShort ==
    (op = "generate" /\ pc = "return" /\ style = "noun_number")
        => LET noun == choice(nouns, draws[1])
               n == Len(noun)
           IN  IF n < 4
               THEN /\ Len(generated) = n + 1
                    /\ SubSeq(generated, 1, n) = noun
                    /\ Contains("0123456789", SubSeq(generated, n + 1, n + 1))
               ELSE generated = noun

NounNumberLongNounUnchanged ==
    /\ op = "generate"
    /\ pc = "return"
    /\ style = "noun_number"
    /\ choice(nouns, draws[1]) = "music"
    /\ generated = "music"

\* C17: every result of check_availability whose 'available' is True or False
\* carries the status code, 200 or 404, of a response to a request of that call;
\* none is returned by a call that issued no request.
VerdictBackedByResponse ==
    (pc = "return" /\ result # NoResult /\ result.available \in {PyTrue, PyFalse})
        => /\ Len(trail) >= 1
           /\ "status_code" \in DOMAIN result
           /\ result.status_code \in {200, 404}
           /\ \E i \in 1..Len(trail) : trail[i].status_code = result.status_code

\* C18: in find_available_username a False result ends the platform loop for
\* that candidate at once: no further request is made for it, it is not
\* returned, and the search goes on with a newly generated candidate while
\* attempts remain, and ends with None when none remains.
TakenAbandonsCandidate ==
    [][/\ (op = "find" /\ pc = "return" /\ raised = NoException
            /\ result.available = PyFalse)
           => /\ pc' = "loop"
              /\ trail' = trail
              /\ found' = PyNone
              /\ attempt' = attempt
       /\ (op = "find" /\ pc = "loop" /\ attempt < max_attempts)
           => /\ attempt' = attempt + 1
              /\ pc' = "generic"
              /\ website' = "github"
              /\ trail' = <<>>
              /\ \E rnd \in RandomSources :
                     username' = generate_username(style, DefaultLength, rnd)
       /\ (op = "find" /\ pc = "loop" /\ attempt >= max_attempts)
           => /\ pc' = "done"
              /\ found' = PyNone
              /\ trail' = trail]_vars

NextCandidateAfterTaken ==
    /\ op = "find"
    /\ pc = "generic"
    /\ attempt = 2
    /\ taken = 1
    /\ trail = <<>>

\* C19: on the generic path of a direct call a request is issued again only
\* after a response with status 429 or 5xx, never after a 2xx response or another
\* 4xx response, and a call issues at most 4 requests.
RetriedOnlyAfter429Or5xx ==
    [][/\ (op = "check" /\ pc = "generic" /\ pc' = "generic")
           => LET answer == wire'[Len(wire')]
              IN  /\ answer.kind = "response"
                  /\ answer.status_code = 429 \/ answer.status_code >= 500
       /\ (op = "check" /\ pc = "generic") => Len(wire') <= RetryTotal + 1]_vars

\* C20: when every request of a direct call on the generic path was answered
\* with 429 or 5xx and the retries are exhausted, the result is an 'error'
\* result that carries the status code of the last response.
ExhaustedRetriesCarryStatus ==
    (op = "check" /\ pc = "return" /\ website \in {"github", "steam"}
        /\ Len(wire) = RetryTotal + 1
        /\ \A i \in 1..Len(wire) :
               /\ wire[i].kind = "response"
               /\ wire[i].status_code = 429 \/ wire[i].status_code >= 500)
        => /\ result.available = "error"
           /\ "status_code" \in DOMAIN result
           /\ result.status_code = wire[Len(wire)].status_code

\* C21: every result a probing path returns after at least one request, whatever
\* its verdict, has a 'method' entry naming the method that produced it.
ResultRecordsMethod ==
    (pc = "return" /\ result # NoResult /\ Len(trail) >= 1)
        => "method" \in DOMAIN result

\* C22: a call of check_availability or find_available_username leaves the
\* fields of the generator object, session_cookies and referer_chain, exactly as
\* they were before the call.
CallLeavesFieldsUnchanged ==
    [][op' \in {"check", "find"}
           => /\ session_cookies' = session_cookies
              /\ referer_chain' = referer_chain]_vars

\* C23: a GET classified by scanning the body for profile-indicator keywords
\* gives, on status 200, Taken when the body has an indicator, Available when it
\* has a login or signup marker and no indicator, and Unknown when it has
\* neither; on status 404 Available; on any other status nothing decisive.
ContentHeuristicClassification ==
    \A i \in 1..Len(trail) :
        (trail[i].method = "search" /\ trail[i].status_code # 0)
            => LET content == lower(trail[i].text)
                   indicator == \E k \in twitter_indicators : Contains(content, k)
                   marker == Contains(content, "login") \/ Contains(content, "sign up")
               IN  IF trail[i].status_code = 200
                   THEN trail[i].verdict = IF indicator THEN PyFalse
                                           ELSE IF marker THEN PyTrue
                                           ELSE "unknown"
                   ELSE IF trail[i].status_code = 404
                   THEN trail[i].verdict = PyTrue
                   ELSE trail[i].verdict \in {"unknown", "inconclusive"}

\* C24: for the style 'adjective_noun' the output is adjective, separator out of
\* "", "_" and "-", noun, and then at most one digit; the digit is appended in
\* exactly two of the three equally weighted outcomes of the branch draw, and the
\* remaining outcome appends none.
AdjectiveNounDigitInTwoOfThree ==
    (op = "generate" /\ pc = "return" /\ style = "adjective_noun")
        => LET digits == {"0", "1", "2", "3", "4", "5", "6", "7", "8", "9"}
               adjective == adjectives[(draws[2] % Len(adjectives)) + 1]
               noun == nouns[(draws[3] % Len(nouns)) + 1]
               outcome(k) == generate_username(style, target_length,
                                               [draws EXCEPT ![1] = k])
               with_digit == {k \in 0..2 :
                                 SubSeq(outcome(k), Len(outcome(k)), Len(outcome(k)))
                                     \in digits}
           IN  /\ \E separator \in {"", "_", "-"} :
                     LET stem == adjective \o separator \o noun
                     IN  \/ generated = stem
                         \/ \E d \in digits : generated = stem \o d
               /\ generated = outcome(draws[1] % 3)
               /\ Cardinality(with_digit) = 2

AdjectiveNounWithDigit ==
    /\ op = "generate"
    /\ pc = "return"
    /\ style = "adjective_noun"
    /\ draws[1] % 3 = 1
    /\ generated = "epic_pro2"

\* C24 as stated: the digit is appended in exactly one of the three equally
\* weighted outcomes of the branch draw, the other two appending none.
AdjectiveNounDigitInOneOfThree ==
    (op = "generate" /\ pc = "return" /\ style = "adjective_noun")
        => LET digits == {"0", "1", "2", "3", "4", "5", "6", "7", "8", "9"}
               outcome(k) == generate_username(style, target_length,
                                               [draws EXCEPT ![1] = k])
           IN  Cardinality({k \in 0..2 :
                               SubSeq(outcome(k), Len(outcome(k)), Len(outcome(k)))
                                   \in digits}) = 1

\* C25: for the style 'letter_sub' the output is as long as the chosen noun, and
\* at every position it has the noun's character or, only where that character
\* is a key of the substitution table, the single digit the table gives for it.
LetterSubKeepsShape ==
    (op = "generate" /\ pc = "return" /\ style = "letter_sub")
        => LET digits == {"0", "1", "2", "3", "4", "5", "6", "7", "8", "9"}
               noun == nouns[(draws[1] % Len(nouns)) + 1]
           IN  /\ Len(generated) = Len(noun)
               /\ \A i \in 1..Len(noun) :
                      LET char == SubSeq(noun, i, i)
                          out == SubSeq(generated, i, i)
                      IN  \/ out = char
                          \/ /\ char \in DOMAIN letter_subs
                             /\ out = letter_subs[char]
                             /\ out \in digits

LetterSubReplacedTwo ==
    /\ op = "generate"
    /\ pc = "return"
    /\ style = "letter_sub"
    /\ nouns[(draws[1] % Len(nouns)) + 1] = "moon"
    /\ generated = "m00n"

\* C26: check_availability executes three probing paths only: _instagram_bypass
\* for instagram, _twitter_bypass for twitter and the generic path for github
\* and steam. The tiktok, youtube and snapchat bypasses are never entered, and the
\* response of a generic GET is never classified for instagram, twitter or tiktok.
OnlyThreeProbingPaths ==
    /\ pc \notin {"tiktok", "youtube", "snapchat"}
    /\ (pc = "instagram") => (website = "instagram")
    /\ (pc \in {"search", "embed", "rss"}) => (website = "twitter")
    /\ (pc = "generic") => (website \in {"github", "steam"})
    /\ \A i \in 1..Len(trail) :
           /\ trail[i].method = "generic" => website \in {"github", "steam"}
           /\ trail[i].method = "api" => website = "instagram"
           /\ trail[i].method \in {"search", "embed", "rss"} => website = "twitter"

TiktokReturnedWithoutProbe ==
    /\ op = "check"
    /\ pc = "return"
    /\ website = "tiktok"
    /\ trail = <<>>
    /\ result = [available |-> "unknown", note |-> "Availability checking not supported"]

\* C27: in find_available_username a candidate whose check returned 'unknown' or
\* 'error' is given up like a taken one: it is not returned and no further
\* request is made for it, the attempt it used stays counted, and when no attempt
\* remains None is returned. With max_attempts <= 0 None is returned with no
\* candidate generated and no request issued.
InconclusiveConsumesAttempt ==
    [][/\ (op = "find" /\ pc = "return" /\ raised = NoException
            /\ result.available \in {"unknown", "error"})
           => /\ pc' = "loop"
              /\ found' = PyNone
              /\ attempt' = attempt
              /\ username' = username
              /\ trail' = trail
       /\ (op = "find" /\ pc = "loop" /\ attempt < max_attempts)
           => /\ attempt' = attempt + 1
              /\ trail' = <<>>
              /\ pc' = "generic"
       /\ (op = "find" /\ pc = "loop" /\ attempt >= max_attempts)
           => /\ pc' = "done"
              /\ found' = PyNone
              /\ attempt' = attempt
              /\ trail' = trail
       /\ (op = "find" /\ max_attempts <= 0)
           => /\ pc \in {"loop", "done"}
              /\ attempt = 0
              /\ username = ""
              /\ trail = <<>>
              /\ found = PyNone]_vars

NoneAfterInconclusiveCandidates ==
    /\ op = "find"
    /\ pc = "done"
    /\ max_attempts = 2
    /\ attempt = 2
    /\ taken = 0
    /\ result.available = "unknown"
    /\ found = PyNone

\* C28: in _twitter_bypass a 200 answer of the search endpoint always decides:
\* False when the body has a profile-indicator keyword, True for any other
\* body, never 'unknown'; embed and rss are requested only when the search
\* answer had a status other than 200 and 404.
SearchDecisiveOn200 ==
    (website = "twitter" /\ Len(trail) >= 1)
        => LET search == trail[1]
               indicator == \E k \in twitter_indicators : Contains(lower(search.text), k)
           IN  /\ search.method = "search"
               /\ search.status_code = 200
                      => /\ Len(trail) = 1
                         /\ pc = "return"
                         /\ result.method = "search"
                         /\ result.status_code = 200
                         /\ result.available = IF indicator THEN PyFalse ELSE PyTrue
               /\ (Len(trail) >= 2 \/ pc \in {"embed", "rss"})
                      => search.status_code \notin {0, 200, 404}

SearchAvailableOnPlainBody ==
    /\ op = "check"
    /\ pc = "return"
    /\ website = "twitter"
    /\ Len(trail) = 1
    /\ trail[1].status_code = 200
    /\ trail[1].text = "<html>Login to continue</html>"
    /\ result = [available |-> PyTrue, status_code |-> 200, method |-> "search"]

\* C29: in _instagram_bypass a 200 answer whose parsed body is an object with an
\* object under 'data' gives False exactly when that object has the key 'user',
\* whatever the value under the key: null and the empty object give False like
\* a populated user object.
InstagramTakenByKeyPresence ==
    (website = "instagram" /\ pc = "return" /\ Len(trail) = 1
        /\ trail[1].status_code = 200)
        => LET j == json(trail[1].text)
               under_data == j.t = "obj" /\ "data" \in DOMAIN j.v /\ j.v.data.t = "obj"
           IN  /\ under_data
                      => result.available =
                             IF "user" \in DOMAIN j.v.data.v THEN PyFalse ELSE PyTrue
               /\ trail[1].text \in {"{\"data\":{\"user\":{\"id\":\"1\"}}}",
                                     "{\"data\":{\"user\":null}}",
                                     "{\"data\":{\"user\":{}}}"}
                      => result = [available |-> PyFalse, status_code |-> 200,
                                   method |-> "api"]

InstagramTakenOnNullUser ==
    /\ op = "check"
    /\ pc = "return"
    /\ website = "instagram"
    /\ Len(trail) = 1
    /\ trail[1].status_code = 200
    /\ trail[1].text = "{\"data\":{\"user\":null}}"
    /\ result.available = PyFalse

\* C30: whenever check_availability has returned, for any username, any platform
\* key, in the table or not, and any behaviour of the transport, its result
\* has an 'available' entry and the entry is True, False, 'unknown' or 'error';
\* the same holds of every entry check_username_across_platforms has stored.
AvailableAlwaysOneOfFour ==
    /\ (op \in {"check", "across", "find"} /\ pc = "return")
           => /\ raised = NoException
              /\ result # NoResult
              /\ "available" \in DOMAIN result
              /\ result.available \in {PyTrue, PyFalse, "unknown", "error"}
    /\ \A site_key \in DOMAIN results :
           /\ "available" \in DOMAIN results[site_key]
           /\ results[site_key].available \in {PyTrue, PyFalse, "unknown", "error"}

AvailablePresentForUnknownKey ==
    /\ op = "check"
    /\ pc = "return"
    /\ website = "myspace"
    /\ "available" \in DOMAIN result
    /\ result.available = PyFalse

====
